---- MODULE Spec2Model ----
(***************************************************************************)
(* The crash target of gdb: the adapter that shows the crash utility's     *)
(* CPUs / tasks, registers and memory to gdb as an execution target.       *)
(* Two builds of crash_target.c exist:                                     *)
(*   variant = "task"  src/crash_target.c      (one gdb thread, prev_task) *)
(*   variant = "cpu"   src/unnamed/part_000    (one gdb thread per CPU)    *)
(***************************************************************************)
EXTENDS Integers, Sequences, FiniteSets, TLC

(* ---------------------------- bounds ---------------------------------- *)
NumRegs == 2        \* gdbarch_num_regs (arch)
MaxCpu  == 2        \* CPU indices are 0 .. MaxCpu-1
MaxTask == 2        \* task handles are 0 .. MaxTask
MaxOps  == 2        \* handler calls explored after crash_target_init

(* ------------------------ program constants --------------------------- *)
RegvalSize == 16            \* sizeof (regval)
NoThread == -1              \* null_ptid / nullptr thread_info
CRASH_INFERIOR_PID == 1     \* #define CRASH_INFERIOR_PID 1

\* mutant of ptid_t: pid and tid change places
ptid_t_Swapped(pid, lwp, tid) == [pid |-> tid, lwp |-> lwp, tid |-> pid]

\* ptid_t (pid, lwp, tid)
ptid_t(pid, lwp, tid) == [pid |-> pid, lwp |-> lwp, tid |-> tid]

Regs    == 0 .. (NumRegs - 1)
CpuIds  == 0 .. (MaxCpu - 1)
Tasks   == 0 .. MaxTask
\* The register sizes of an architecture: every register fits the scratch
\* buffer (wide = NumRegs), or register `wide' alone is larger than it.
ArchOf(wide) == [r \in Regs |-> IF r = wide THEN 2 * RegvalSize ELSE RegvalSize]
Archs   == {ArchOf(w) : w \in 0 .. NumRegs}
Regnos  == (-2) .. (NumRegs - 1)

VARIABLES
  variant,       \* which build: "cpu" or "task"
  phase,         \* "Unregistered" | "Populated"  (crash_target_init not run / run)
  arch,          \* register_size of every register of the gdbarch
  threads,       \* the inferior's thread list: sequence of ptids
  inferior_tid,  \* inferior_ptid.tid () of the active thread, NoThread if none
  regcache,      \* regcache of the thread with tid t: register -> entry
  frame_valid,   \* the frame cache holds unwound frames
  crash_cpu,     \* the CPU crash has selected (set_cpu / crash_set_thread)
  nr_cpus,       \* crash_get_nr_cpus () as read by crash_target_init, 0 before
  cur_task,      \* crash's CURRENT task (scope of crash_get_current_task_reg)
  prev_task,     \* static ulong prev_task of gdb_change_thread_context
  nops,          \* number of handler calls made after crash_target_init
  ev,            \* what the last handler did (calls made, results)
  notes          \* the last two context-change notifications (per-task build)

vars == <<variant, phase, arch, threads, inferior_tid, regcache, frame_valid,
          crash_cpu, nr_cpus, cur_task, prev_task, nops, ev, notes>>

(* ------------------------- register cache ----------------------------- *)
\* REG_UNKNOWN entry of a fresh or invalidated regcache
UnknownEntry == [st |-> "unknown", val |-> 0]

EmptyCache == [r \in Regs |-> UnknownEntry]

\* The bytes of register r in context ctx (a CPU index or a task handle) of
\* the static image; never zero, so a zeroed entry is distinguishable.
RegVal(ctx, r) == ctx * NumRegs + r + 1

\* regcache->raw_supply (r, buf): buf = NULL marks the register unavailable
\* (and zeroes it), otherwise the register becomes valid with buf's bytes.
raw_supply(cache, r, isNull, buf) ==
  [cache EXCEPT ![r] = IF isNull THEN [st |-> "unavailable", val |-> 0]
                                 ELSE [st |-> "valid", val |-> buf]]

\* The per-register read primitive (crash_get_cpu_reg /
\* crash_get_current_task_reg): on success it writes the register's bytes
\* to the buffer and returns nonzero, on failure the buffer is left alone.
ReadPrimitive(ctx, r, ok, buf) ==
  [ret |-> ok, buf |-> IF ok THEN RegVal(ctx, r) ELSE buf]

\* state of one run of fetch_registers: the cache being filled, the scratch
\* buffer regval, the primitive calls made so far, error () raised
FetchStart(cache) == [cache |-> cache, buf |-> 0, reads |-> <<>>, err |-> FALSE]

\* mutant of SupplyResult: supplies the scratch buffer also on failure
SupplyResult_AlwaysBuf(cache, r, ret, buf) == raw_supply(cache, r, FALSE, buf)

\* if (primitive (...)) raw_supply (r, regval); else raw_supply (r, NULL);
SupplyResult(cache, r, ret, buf) ==
  IF ret THEN raw_supply(cache, r, FALSE, buf)
         ELSE raw_supply(cache, r, TRUE, buf)

\* The loop body of fetch_registers for register r, read in context ctx.
FetchBody(s, ctx, r, oks) ==
  IF arch[r] > RegvalSize
    THEN [s EXCEPT !.err = TRUE]
    ELSE LET p == ReadPrimitive(ctx, r, oks[r], s.buf)
         IN  [cache |-> SupplyResult(s.cache, r, p.ret, p.buf),
              buf   |-> p.buf,
              reads |-> Append(s.reads, [ctx |-> ctx, r |-> r, ok |-> p.ret,
                                         val |-> p.buf]),
              err   |-> FALSE]

(* ---------------- per-task build: crash_target::fetch_registers -------- *)
RECURSIVE ForTask(_, _, _, _, _)
\* for (...; regno == -1 && r < gdbarch_num_regs (arch); r++) { body }
ForTask(s, ctx, r, regno, oks) ==
  IF regno = -1 /\ r < NumRegs
    THEN LET s2 == FetchBody(s, ctx, r, oks)
         IN  IF s2.err THEN s2 ELSE ForTask(s2, ctx, r + 1, regno, oks)
    ELSE s

\* regno >= 0 jumps into the loop body once (goto onetime), then the loop
\* condition is evaluated with r = regno + 1
fetch_registers_task(cache, ctx, regno, oks) ==
  IF regno >= 0
    THEN LET s2 == FetchBody(FetchStart(cache), ctx, regno, oks)
         IN  IF s2.err THEN s2 ELSE ForTask(s2, ctx, regno + 1, regno, oks)
    ELSE ForTask(FetchStart(cache), ctx, 0, regno, oks)

(* ---------------- per-CPU build: crash_target::fetch_registers --------- *)
RECURSIVE ForCpu(_, _, _, _)
\* for (int r = 0; r < gdbarch_num_regs (arch); r++) { body }
ForCpu(s, cpu, r, oks) ==
  IF r < NumRegs
    THEN LET s2 == FetchBody(s, cpu, r, oks)
         IN  IF s2.err THEN s2 ELSE ForCpu(s2, cpu, r + 1, oks)
    ELSE s

\* int cpu = inferior_ptid.tid (): the CPU is the one of the active thread,
\* whatever thread the regcache belongs to
FetchContextCpu(tid, target) == tid

\* mutant of fetch_registers_cpu: nothing is fetched for the regcache of the
\* thread that is already the active one
fetch_registers_cpu_SkipActive(cache, tid, target, regno, oks) ==
  IF tid = target
    THEN FetchStart(cache)
    ELSE ForCpu(FetchStart(cache), FetchContextCpu(tid, target), 0, oks)

\* regno is not used: all registers are fetched
fetch_registers_cpu(cache, tid, target, regno, oks) ==
  ForCpu(FetchStart(cache), FetchContextCpu(tid, target), 0, oks)

(* ----------------------------- events --------------------------------- *)
NoEv == [op |-> "none", ret |-> "void", task |-> 0, cpu |-> NoThread,
         target |-> NoThread, regno |-> -1, reads |-> <<>>, calls |-> <<>>,
         req |-> <<>>, mem |-> <<>>, xfered |-> <<>>]

Ev(op, ret, task, cpu, target, regno, reads, calls) ==
  [op |-> op, ret |-> ret, task |-> task, cpu |-> cpu, target |-> target,
   regno |-> regno, reads |-> reads, calls |-> calls, req |-> <<>>,
   mem |-> <<>>, xfered |-> <<>>]

\* number of times the handler called function f
RECURSIVE Count(_, _)
Count(calls, f) ==
  IF calls = <<>> THEN 0
  ELSE (IF Head(calls) = f THEN 1 ELSE 0) + Count(Tail(calls), f)


\* the results of the register reads of one fetch, register by register
Oks == [Regs -> BOOLEAN]

(* ------------------------------ Init ---------------------------------- *)
\* The state before crash_target_init: no target pushed, no thread, empty
\* register caches; prev_task is statically initialised to 0; crash has its
\* first CPU selected and no CURRENT task yet (gdb is set up before crash
\* reads the tasks of the image).
Init ==
  /\ variant \in {"cpu", "task"}
  /\ phase = "Unregistered"
  /\ arch \in Archs
  /\ threads = <<>>
  /\ inferior_tid = NoThread
  /\ regcache = [t \in CpuIds |-> EmptyCache]
  /\ frame_valid = FALSE
  /\ crash_cpu = 0
  /\ nr_cpus = 0
  /\ cur_task = 0
  /\ prev_task = 0
  /\ nops = 0
  /\ ev = NoEv
  /\ notes = <<>>

\* mutant of registers_changed: the register caches are kept
registers_changed_Keep(rc) == rc

\* registers_changed (): every regcache of the target is invalidated
registers_changed(rc) == [t \in DOMAIN rc |-> EmptyCache]

\* mutant of InitPrefix: the thread is added before the target is pushed
InitPrefix_ThreadFirst ==
  <<"inferior_appeared", "add_thread_silent", "push_target",
    "switch_to_thread">>

\* the calls of crash_target_init up to the first thread being current
InitPrefix == <<"push_target", "inferior_appeared", "add_thread_silent",
                "switch_to_thread">>

(* ------------------------- per-task build ----------------------------- *)
\* crash_target_init: push the target, add the single thread (1, 0, 0),
\* make it current, fetch all registers, reinit the frame cache.  error ()
\* raised by the fetch leaves the function before reinit_frame_cache.
crash_target_init_task(oks) ==
  /\ variant = "task"
  /\ phase = "Unregistered"
  /\ LET s == fetch_registers_task(regcache[0], cur_task, -1, oks)
     IN  /\ regcache' = [regcache EXCEPT ![0] = s.cache]
         /\ frame_valid' = IF s.err THEN frame_valid ELSE FALSE
         /\ ev' = Ev("init", IF s.err THEN "error" ELSE "void", 0, NoThread,
                     0, -1, s.reads,
                     InitPrefix \o <<"target_fetch_registers">> \o
                       (IF s.err THEN <<>> ELSE <<"reinit_frame_cache">>))
  /\ phase' = "Populated"
  /\ threads' = <<ptid_t(CRASH_INFERIOR_PID, 0, 0)>>
  /\ inferior_tid' = 0
  /\ UNCHANGED <<variant, nr_cpus, arch, crash_cpu, cur_task, prev_task, nops, notes>>

\* mutant of SameTask: no notification is taken for a repetition
SameTask_Never(task, prev) == FALSE

\* if (task == prev_task) return TRUE;
SameTask(task, prev) == task = prev

\* mutant of NextPrevTask: the marker is not updated
NextPrevTask_Keep(task, prev) == prev

\* prev_task = task;
NextPrevTask(task, prev) == task

\* the last two notifications, oldest first
Remember(ns, n) == IF Len(ns) < 2 THEN Append(ns, n) ELSE <<ns[2], n>>

\* gdb_change_thread_context (task), called by crash when it has made task
\* its CURRENT task (also when CURRENT did not change).
gdb_change_thread_context_task(task) ==
  /\ variant = "task"
  /\ phase = "Populated"
  /\ nops < MaxOps
  /\ nops' = nops + 1
  /\ cur_task' = task
  /\ IF SameTask(task, prev_task)
       THEN /\ UNCHANGED <<prev_task, regcache, frame_valid>>
            /\ ev' = Ev("notify", "TRUE", task, NoThread, NoThread, -1,
                        <<>>, <<>>)
            /\ notes' = Remember(notes, [task |-> task, before |-> prev_task,
                                         calls |-> <<>>])
       ELSE /\ prev_task' = NextPrevTask(task, prev_task)
            /\ regcache' = registers_changed(regcache)
            /\ frame_valid' = FALSE
            /\ ev' = Ev("notify", "TRUE", task, NoThread, NoThread, -1, <<>>,
                        <<"registers_changed", "reinit_frame_cache">>)
            /\ notes' = Remember(notes, [task |-> task, before |-> prev_task,
                                         calls |-> <<"registers_changed",
                                                     "reinit_frame_cache">>])
  /\ UNCHANGED <<variant, nr_cpus, phase, arch, threads, inferior_tid, crash_cpu>>

\* The host calls the target's fetch_registers for the regcache of the
\* single thread, with a register number or a negative number.
target_fetch_registers_task(regno, oks) ==
  /\ variant = "task"
  /\ phase = "Populated"
  /\ nops < MaxOps
  /\ nops' = nops + 1
  /\ LET s == fetch_registers_task(regcache[inferior_tid], cur_task, regno, oks)
     IN  /\ regcache' = [regcache EXCEPT ![inferior_tid] = s.cache]
         /\ ev' = Ev("fetch", IF s.err THEN "error" ELSE "void", 0, NoThread,
                     inferior_tid, regno, s.reads, <<>>)
  /\ UNCHANGED <<variant, nr_cpus, phase, arch, threads, inferior_tid, frame_valid,
                 crash_cpu, cur_task, prev_task, notes>>

\* The host unwinds the stack of the current thread and memoizes the frames.
HostUnwind ==
  /\ phase = "Populated"
  /\ nops < MaxOps
  /\ nops' = nops + 1
  /\ inferior_tid # NoThread
  /\ ~frame_valid
  /\ frame_valid' = TRUE
  /\ ev' = Ev("unwind", "void", 0, NoThread, NoThread, -1, <<>>, <<>>)
  /\ UNCHANGED <<variant, nr_cpus, phase, arch, threads, inferior_tid, regcache,
                 crash_cpu, cur_task, prev_task, notes>>


(* ------------------------- per-CPU build ------------------------------ *)
\* the threads (1, 0, 0) .. (1, 0, n-1) in creation order
\* mutant of UpTo: the loop starts at CPU 1
UpTo_FromOne(n) == [i \in 1..n |-> ptid_t(CRASH_INFERIOR_PID, 0, i)]

RECURSIVE UpTo(_)
UpTo(n) ==
  IF n = 0 THEN <<>>
  ELSE Append(UpTo(n - 1), ptid_t(CRASH_INFERIOR_PID, 0, n - 1))

\* find_thread_ptid (inf, ptid): the position of the first thread of the
\* list with that ptid, 0 (nullptr) if there is none
find_thread_ptid(thrs, ptid) ==
  IF \E i \in 1..Len(thrs) : thrs[i] = ptid
    THEN CHOOSE i \in 1..Len(thrs) :
           thrs[i] = ptid /\ \A j \in 1..(i - 1) : thrs[j] # ptid
    ELSE 0

\* add_thread_silent (target, ptid): a new thread at the end of the list;
\* ok = FALSE is a call yielding no thread
add_thread_silent(thrs, ptid, ok) == IF ok THEN Append(thrs, ptid) ELSE thrs

\* mutant of switch_to_thread: the selected thread stays
switch_to_thread_Stay(cur, tid) == cur

\* switch_to_thread (tp): inferior_ptid becomes the thread's ptid
switch_to_thread(cur, tid) == tid

\* mutant of NeedCreate: a thread is created whether or not one was found
NeedCreate_Always(tp, tried) == tried = 0

\* if (tp == nullptr && !tried)
NeedCreate(tp, tried) == tp = 0 /\ tried = 0

\* mutant of GiveUp: || in place of &&
GiveUp_Or(tp, tried) == tp = 0 \/ tried # 0

\* if (tp == nullptr && tried) return FALSE;
GiveUp(tp, tried) == tp = 0 /\ tried # 0

\* crash_target_init: crash_get_nr_cpus () threads (1, 0, i), thread 0 is
\* made current, all registers fetched, frame cache reinitialised.
crash_target_init_cpu(n, oks) ==
  /\ variant = "cpu"
  /\ phase = "Unregistered"
  /\ LET s == fetch_registers_cpu(regcache[0], 0, 0, -1, oks)
     IN  /\ regcache' = [regcache EXCEPT ![0] = s.cache]
         /\ frame_valid' = IF s.err THEN frame_valid ELSE FALSE
         /\ ev' = Ev("init", IF s.err THEN "error" ELSE "void", 0, NoThread,
                     0, -1, s.reads,
                     <<"crash_get_nr_cpus">> \o InitPrefix \o
                       [i \in 1..(n - 1) |-> "add_thread_silent"] \o
                       <<"target_fetch_registers">> \o
                       (IF s.err THEN <<>> ELSE <<"reinit_frame_cache">>))
  /\ phase' = "Populated"
  /\ threads' = UpTo(n)
  /\ nr_cpus' = n
  /\ inferior_tid' = 0
  /\ UNCHANGED <<variant, arch, crash_cpu, cur_task, prev_task, nops, notes>>

\* gdb_change_thread_context (task).  The task handle is only handed to
\* crash_set_thread (task); cpu is its result, and crash has selected that
\* CPU when it is valid.  addOk is whether add_thread_silent yields a thread,
\* oks the results of the register reads of the fetch.
gdb_change_thread_context_cpu(cpu) ==
  /\ variant = "cpu"
  /\ phase = "Populated"
  /\ nops < MaxOps
  /\ nops' = nops + 1
  /\ crash_cpu' = IF cpu >= 0 THEN cpu ELSE crash_cpu
  /\ IF cpu < 0
       THEN /\ ev' = Ev("notify", "FALSE", 0, cpu, NoThread, -1, <<>>,
                        <<"crash_set_thread">>)
            /\ UNCHANGED <<threads, inferior_tid, regcache, frame_valid>>
       ELSE
         \E addOk \in (IF find_thread_ptid(threads, ptid_t(CRASH_INFERIOR_PID,
                                                           0, cpu)) = 0
                         THEN BOOLEAN ELSE {TRUE}) :
         LET ptid  == ptid_t(CRASH_INFERIOR_PID, 0, cpu)
             tp1   == find_thread_ptid(threads, ptid)
             added == NeedCreate(tp1, 0)
             thrs2 == IF added THEN add_thread_silent(threads, ptid, addOk)
                               ELSE threads
             tried == IF added THEN 1 ELSE 0
             \* goto retry only if (thread)
             tp    == IF added /\ addOk THEN find_thread_ptid(thrs2, ptid)
                                        ELSE tp1
             pre   == <<"crash_set_thread", "find_thread_ptid">> \o
                      (IF added THEN <<"add_thread_silent">> ELSE <<>>) \o
                      (IF added /\ addOk THEN <<"find_thread_ptid">> ELSE <<>>)
         IN
           /\ threads' = thrs2
           /\ IF GiveUp(tp, tried)
                THEN /\ ev' = Ev("notify", "FALSE", 0, cpu, NoThread, -1,
                                 <<>>, pre)
                     /\ UNCHANGED <<inferior_tid, regcache, frame_valid>>
                ELSE
                  \E oks \in Oks :
                  LET target == thrs2[tp].tid
                      s == fetch_registers_cpu(regcache[target], inferior_tid,
                                               target, -1, oks)
                  IN  /\ regcache' = [regcache EXCEPT ![target] = s.cache]
                      /\ inferior_tid' = IF s.err THEN inferior_tid
                                       ELSE switch_to_thread(inferior_tid,
                                                             target)
                      /\ frame_valid' = IF s.err THEN frame_valid ELSE FALSE
                      /\ ev' = Ev("notify", IF s.err THEN "error" ELSE "TRUE",
                                  0, cpu, target, -1, s.reads,
                                  pre \o <<"target_fetch_registers">> \o
                                  (IF s.err THEN <<>>
                                   ELSE <<"switch_to_thread",
                                          "reinit_frame_cache">>))
  /\ UNCHANGED <<variant, nr_cpus, phase, arch, cur_task, prev_task, notes>>

\* gdb_refresh_regcache (cpu)
gdb_refresh_regcache(cpu) ==
  /\ variant = "cpu"
  /\ phase = "Populated"
  /\ nops < MaxOps
  /\ nops' = nops + 1
  /\ LET saved_cpu == inferior_tid
         tp == find_thread_ptid(threads, ptid_t(CRASH_INFERIOR_PID, 0, cpu))
     IN  IF tp = 0
           THEN /\ ev' = Ev("refresh", "void", 0, cpu, NoThread, -1, <<>>,
                            <<"find_thread_ptid", "warning">>)
                /\ UNCHANGED <<regcache, crash_cpu>>
           ELSE
             \E oks \in Oks :
             LET target == threads[tp].tid
                 s == fetch_registers_cpu(regcache[target], inferior_tid,
                                          target, -1, oks)
             IN  /\ regcache' = [regcache EXCEPT ![target] = s.cache]
                 \* set_cpu (cpu, FALSE); fetch; set_cpu (saved_cpu, FALSE)
                 /\ crash_cpu' = IF s.err THEN cpu ELSE saved_cpu
                 /\ ev' = Ev("refresh", IF s.err THEN "error" ELSE "void", 0,
                             cpu, target, -1, s.reads,
                             <<"find_thread_ptid", "set_cpu",
                               "target_fetch_registers">> \o
                             (IF s.err THEN <<>> ELSE <<"set_cpu">>))
  /\ UNCHANGED <<variant, nr_cpus, phase, arch, threads, inferior_tid, frame_valid,
                 cur_task, prev_task, notes>>

\* The host calls the target's fetch_registers for the regcache of the
\* selected thread (get_current_regcache ()).
target_fetch_registers_cpu(regno, oks) ==
  /\ variant = "cpu"
  /\ phase = "Populated"
  /\ nops < MaxOps
  /\ nops' = nops + 1
  /\ LET target == inferior_tid
         s == fetch_registers_cpu(regcache[target], inferior_tid, target,
                                  regno, oks)
     IN  /\ regcache' = [regcache EXCEPT ![target] = s.cache]
         /\ ev' = Ev("fetch", IF s.err THEN "error" ELSE "void", 0, NoThread,
                     target, -1, s.reads, <<>>)
  /\ UNCHANGED <<variant, nr_cpus, phase, arch, threads, inferior_tid, frame_valid,
                 crash_cpu, cur_task, prev_task, notes>>

(* ----------------- crash_target::xfer_partial (both builds) ----------- *)
\* enum target_object values a request can carry
Objects == {"MEMORY", "RAW_MEMORY", "STACK_MEMORY", "CODE_MEMORY", "AUXV"}

\* A ULONGEST (64 bits) is kept as four 16-bit limbs,
\* w3 * 2^48 + w2 * 2^32 + w1 * 2^16 + w0, since TLC's integers
\* have 32 bits.
U64(w3, w2, w1, w0) == [w3 |-> w3, w2 |-> w2, w1 |-> w1, w0 |-> w0]

\* offsets and lengths of the requests explored: 0, 0x1000, 2^64 - 1 and
\* 0, 64, 2^31, 2^32 + 64
Offsets == {U64(0, 0, 0, 0), U64(0, 0, 0, 4096),
            U64(2^16 - 1, 2^16 - 1, 2^16 - 1, 2^16 - 1)}
Lens    == {U64(0, 0, 0, 0), U64(0, 0, 0, 64), U64(0, 0, 2^15, 0),
            U64(0, 1, 0, 64)}

\* pointers: 0 is NULL, 1 the caller's read buffer, 2 its write buffer
ReadBufs  == {0, 1}
WriteBufs == {0, 2}

\* conversion of a ULONGEST to the unsigned long parameter: the same 64
\* bits on an LP64 host
ToULong(x) == U64(x.w3, x.w2, x.w1, x.w0)

\* conversion of a ULONGEST to the int parameter: the low 32 bits, read as
\* a two's complement number
ToInt(x) ==
  IF x.w1 < 2^15 THEN x.w1 * 2^16 + x.w0
                 ELSE (x.w1 - 2^16) * 2^16 + x.w0

\* mutant of AllowedObject: every object kind is relayed
AllowedObject_Any(object) == TRUE

\* object == TARGET_OBJECT_MEMORY || object == TARGET_OBJECT_STACK_MEMORY
\*   || object == TARGET_OBJECT_CODE_MEMORY
AllowedObject(object) ==
  ~(object # "MEMORY" /\ object # "STACK_MEMORY" /\ object # "CODE_MEMORY")

\* the arguments of gdb_readmem_callback (offset, readbuf ? readbuf :
\* writebuf, len, !readbuf)
ReadmemArgs(readbuf, writebuf, offset, len) ==
  [addr  |-> ToULong(offset),
   buf   |-> IF readbuf # 0 THEN readbuf ELSE writebuf,
   len   |-> ToInt(len),
   write |-> IF readbuf = 0 THEN 1 ELSE 0]

\* mutant of XferOutcome: the primitive's result is ignored
XferOutcome_AlwaysOk(ret, len) == [ret |-> "OK", xfered |-> <<len>>]

\* if (ret) { *xfered_len = len; return TARGET_XFER_OK; }
\* return TARGET_XFER_E_IO;      (xfered = <<>>: *xfered_len is not written)
XferOutcome(ret, len) ==
  IF ret # 0 THEN [ret |-> "OK", xfered |-> <<len>>]
             ELSE [ret |-> "E_IO", xfered |-> <<>>]

\* xfer_partial (object, annex, readbuf, writebuf, offset, len, xfered_len);
\* ret is what gdb_readmem_callback returns when it is called.
xfer_partial(object, readbuf, writebuf, offset, len) ==
  /\ phase = "Populated"
  /\ LET req == [object |-> object, readbuf |-> readbuf,
                 writebuf |-> writebuf, offset |-> offset, len |-> len]
     IN  IF ~AllowedObject(object)
           THEN ev' = [NoEv EXCEPT !.op = "xfer", !.ret = "E_IO", !.req = req]
           ELSE \E ret \in {0, 1} :
                  LET o == XferOutcome(ret, len)
                  IN  ev' = [NoEv EXCEPT
                               !.op = "xfer", !.ret = o.ret, !.req = req,
                               !.mem = <<[args |-> ReadmemArgs(readbuf,
                                            writebuf, offset, len),
                                          ret |-> ret]>>,
                               !.xfered = o.xfered]
  /\ UNCHANGED <<variant, phase, arch, threads, inferior_tid, regcache,
                 frame_valid, crash_cpu, nr_cpus, cur_task, prev_task, nops,
                 notes>>

(* ----------------------- the specifications --------------------------- *)
Next ==
  \/ \E oks \in Oks : crash_target_init_task(oks)
  \/ \E task \in Tasks : gdb_change_thread_context_task(task)
  \/ \E regno \in Regnos, oks \in Oks : target_fetch_registers_task(regno, oks)
  \/ \E n \in 1..MaxCpu, oks \in Oks : crash_target_init_cpu(n, oks)
  \/ \E cpu \in (-1)..(MaxCpu - 1) : gdb_change_thread_context_cpu(cpu)
  \/ \E cpu \in CpuIds : gdb_refresh_regcache(cpu)
  \/ \E regno \in {-1, 0}, oks \in Oks : target_fetch_registers_cpu(regno, oks)
  \/ HostUnwind

\* threads, register caches and contexts of both builds
Spec == Init /\ [][Next]_vars

\* xfer_partial reads nothing of the threads and the register caches, so
\* the start-up is explored with every register read succeeding
AllOk == [r \in Regs |-> TRUE]

NextXfer ==
  \/ crash_target_init_task(AllOk)
  \/ \E n \in 1..MaxCpu : crash_target_init_cpu(n, AllOk)
  \/ \E object \in Objects, readbuf \in ReadBufs, writebuf \in WriteBufs,
        offset \in Offsets, len \in Lens :
        xfer_partial(object, readbuf, writebuf, offset, len)

\* the memory relay of both builds
SpecXfer == Init /\ [][NextXfer]_vars

(* ============================ the claims ============================== *)
\* the tids of the thread records
ThreadIds == {threads[i].tid : i \in 1..Len(threads)}

\* the register-cache entry a read result must leave behind
EntryOf(rd) == IF rd.ok THEN [st |-> "valid", val |-> rd.val]
                        ELSE [st |-> "unavailable", val |-> 0]

\* number of frame-cache and register-cache invalidations of a notification
FrameInv(n) == Count(n.calls, "reinit_frame_cache")
RegInv(n)   == Count(n.calls, "registers_changed")

(* C1 (per-CPU build): an accepted notification resolving to CPU c fills   *)
(* the thread record of c with the registers of CPU c: every read of the   *)
(* fetch it triggers is made for CPU c, and every valid entry of the       *)
(* record holds the bytes of CPU c.                                        *)
C1_FetchReadsResolvedCpu ==
  (variant = "cpu" /\ ev.op = "notify" /\ ev.ret = "TRUE") =>
     /\ \A i \in 1..Len(ev.reads) : ev.reads[i].ctx = ev.cpu
     /\ \A r \in Regs : regcache[ev.cpu][r].st = "valid"
                          => regcache[ev.cpu][r].val = RegVal(ev.cpu, r)

(* C2 as stated (per-task build): two consecutive notifications with the   *)
(* same handle produce exactly one invalidation of the register cache and  *)
(* of the frame cache in total, at every point of a run.                   *)
C2_ExactlyOneInvalidation ==
  (variant = "task" /\ Len(notes) = 2 /\ notes[1].task = notes[2].task) =>
     /\ FrameInv(notes[1]) + FrameInv(notes[2]) = 1
     /\ RegInv(notes[1]) + RegInv(notes[2]) = 1

(* C2 amended: of two consecutive notifications with the same handle T the *)
(* second never invalidates, and the first invalidates (once, register     *)
(* cache and frame cache) exactly when prev_task differed from T before    *)
(* it; so the pair gives one invalidation if prev_task # T (prev_task is 0 *)
(* after construction) and none otherwise, never two.                      *)
C2_AtMostOneInvalidation ==
  (variant = "task" /\ Len(notes) = 2 /\ notes[1].task = notes[2].task) =>
     /\ FrameInv(notes[2]) = 0 /\ RegInv(notes[2]) = 0
     /\ notes[2].before = notes[1].task
     /\ IF notes[1].before # notes[1].task
          THEN FrameInv(notes[1]) = 1 /\ RegInv(notes[1]) = 1
          ELSE FrameInv(notes[1]) = 0 /\ RegInv(notes[1]) = 0

C2_Witness ==
  /\ variant = "task" /\ Len(notes) = 2 /\ notes[1].task = notes[2].task
  /\ FrameInv(notes[1]) = 1 /\ ev.op = "notify"
  /\ regcache[0] = EmptyCache /\ ~frame_valid

(* C3 as stated (per-task build): of two notifications with different      *)
(* handles each one invalidates, also the first notification after         *)
(* construction, and prev_task is the handle of the latest.                *)
C3_BothInvalidate ==
  (variant = "task" /\ Len(notes) = 2 /\ notes[1].task # notes[2].task) =>
     /\ FrameInv(notes[1]) = 1 /\ RegInv(notes[1]) = 1
     /\ FrameInv(notes[2]) = 1 /\ RegInv(notes[2]) = 1
     /\ prev_task = notes[2].task

(* C3 amended: of two consecutive notifications with different handles the *)
(* second always invalidates and prev_task is then its handle; the first   *)
(* invalidates exactly when its handle differs from prev_task before it    *)
(* (prev_task is 0 after construction, so a first notification with handle *)
(* 0 does not invalidate).                                                 *)
C3_LatestInvalidates ==
  (variant = "task" /\ Len(notes) = 2 /\ notes[1].task # notes[2].task) =>
     /\ FrameInv(notes[2]) = 1 /\ RegInv(notes[2]) = 1
     /\ prev_task = notes[2].task
     /\ (FrameInv(notes[1]) = 1 /\ RegInv(notes[1]) = 1)
          <=> notes[1].before # notes[1].task
     /\ FrameInv(notes[1]) <= 1 /\ RegInv(notes[1]) <= 1

C3_Witness ==
  /\ variant = "task" /\ Len(notes) = 2 /\ notes[1].task # notes[2].task
  /\ FrameInv(notes[1]) = 1 /\ FrameInv(notes[2]) = 1
  /\ prev_task = notes[2].task /\ prev_task # 0

(* C4 (both builds): a fetch that meets a register wider than the scratch  *)
(* buffer aborts and leaves every register cache as it was before the      *)
(* fetch.                                                                  *)
C4_AbortLeavesCache == [][ev'.ret = "error" => regcache' = regcache]_vars

(* C5 (both builds): after a fetch, the entry of every register the fetch  *)
(* read is valid with the bytes the read primitive reported, or            *)
(* unavailable when the primitive failed.                                  *)
C5_EntryIsReadResult ==
  \A i \in 1..Len(ev.reads) :
     /\ arch[ev.reads[i].r] <= RegvalSize
     /\ regcache[ev.target][ev.reads[i].r] = EntryOf(ev.reads[i])
     /\ ev.reads[i].ok => ev.reads[i].val = RegVal(ev.reads[i].ctx, ev.reads[i].r)

C5_Witness ==
  /\ Len(ev.reads) = NumRegs
  /\ \E i, j \in 1..Len(ev.reads) : ev.reads[i].ok /\ ~ev.reads[j].ok
  /\ \E r \in Regs : regcache[ev.target][r].st = "unavailable"
  /\ \E r \in Regs : regcache[ev.target][r].st = "valid"


(* C6 (both builds): after population, every step that invalidates or    *)
(* rewrites the register cache of the active thread (a context-change      *)
(* notification, gdb_refresh_regcache on the active CPU) and runs to its   *)
(* end also discards the frame cache (reinit_frame_cache).                 *)
C6_RewriteDiscardsFrame ==
  [][(phase = "Populated" /\ ev'.ret # "error") =>
       LET discarded == Count(ev'.calls, "reinit_frame_cache") > 0
           touched   == /\ ev'.op \in {"notify", "refresh"}
                        /\ \/ Count(ev'.calls, "registers_changed") > 0
                           \/ ev'.reads # <<>> /\ ev'.target = inferior_tid'
       IN  touched => discarded]_vars

\* no two thread records carry the same CPU index
NoDuplicateThread ==
  \A i, j \in 1..Len(threads) : threads[i].tid = threads[j].tid => i = j

(* C7 (per-CPU build): thread records and CPU indices stay one to one; a  *)
(* notification resolving to a CPU without a record calls                  *)
(* add_thread_silent exactly once and, when accepted, has appended exactly *)
(* that record; a notification resolving to a CPU with a record creates    *)
(* none and leaves the thread list alone.                                  *)
C7_OneRecordPerCpu ==
  /\ [](variant = "cpu" => NoDuplicateThread /\ ThreadIds \subseteq CpuIds)
  /\ [][(variant = "cpu" /\ ev'.op = "notify" /\ ev'.cpu >= 0) =>
          IF ev'.cpu \in ThreadIds
            THEN /\ Count(ev'.calls, "add_thread_silent") = 0
                 /\ threads' = threads
                 /\ ev'.ret # "FALSE"
            ELSE /\ Count(ev'.calls, "add_thread_silent") = 1
                 /\ ev'.ret # "FALSE" => threads' = Append(threads,
                                         ptid_t(CRASH_INFERIOR_PID, 0, ev'.cpu))
                 /\ ev'.ret = "FALSE" => threads' = threads]_vars

C7_Witness ==
  /\ variant = "cpu" /\ ev.op = "notify" /\ ev.ret = "TRUE"
  /\ ev.cpu >= nr_cpus /\ ev.target = ev.cpu
  /\ Count(ev.calls, "add_thread_silent") = 0

(* C8 (per-CPU build): a notification that reports failure leaves the      *)
(* thread records, the active thread, every register cache and the frame   *)
(* cache as they were and reads no register.                               *)
C8_RejectedChangesNothing ==
  [][(variant = "cpu" /\ ev'.op = "notify" /\ ev'.ret = "FALSE") =>
       /\ threads' = threads
       /\ inferior_tid' = inferior_tid
       /\ regcache' = regcache
       /\ frame_valid' = frame_valid
       /\ ev'.reads = <<>>
       /\ Count(ev'.calls, "target_fetch_registers") = 0
       /\ Count(ev'.calls, "switch_to_thread") = 0
       /\ Count(ev'.calls, "reinit_frame_cache") = 0]_vars

C8_Witness ==
  /\ variant = "cpu" /\ ev.op = "notify" /\ ev.ret = "FALSE"
  /\ ev.cpu >= 0 /\ ev.cpu \notin ThreadIds
  /\ frame_valid

(* C9 (both builds): a transfer request for an object kind other than     *)
(* memory, stack memory and code memory never calls the memory primitive   *)
(* and returns TARGET_XFER_E_IO, whatever its offset, length and buffers.  *)
C9_DisallowedNeverRelayed ==
  (ev.op = "xfer" /\ ev.req.object \notin {"MEMORY", "STACK_MEMORY",
                                           "CODE_MEMORY"}) =>
     /\ Len(ev.mem) = 0
     /\ ev.ret = "E_IO"
     /\ ev.xfered = <<>>

C9_Witness ==
  /\ ev.op = "xfer" /\ ev.req.object = "AUXV" /\ ev.req.readbuf # 0
  /\ ev.req.len = U64(0, 0, 0, 64) /\ ev.ret = "E_IO"

(* C10 (both builds): a transfer request for memory, stack memory or code  *)
(* memory calls the memory primitive exactly once; the result is           *)
(* TARGET_XFER_OK with the full requested length transferred exactly when  *)
(* the primitive reports success, TARGET_XFER_E_IO exactly when it fails.  *)
C10_ResultFollowsPrimitive ==
  (ev.op = "xfer" /\ ev.req.object \in {"MEMORY", "STACK_MEMORY",
                                        "CODE_MEMORY"}) =>
     /\ Len(ev.mem) = 1
     /\ ev.mem[1].ret # 0 <=> (ev.ret = "OK" /\ ev.xfered = <<ev.req.len>>)
     /\ ev.mem[1].ret = 0 <=> (ev.ret = "E_IO" /\ ev.xfered = <<>>)

C10_Witness ==
  /\ ev.op = "xfer" /\ ev.req.object = "STACK_MEMORY"
  /\ ev.req.offset = U64(0, 0, 0, 4096) /\ ev.req.len = U64(0, 0, 0, 64)
  /\ ev.req.readbuf # 0 /\ ev.mem[1].ret # 0
  /\ ev.ret = "OK" /\ ev.xfered = <<U64(0, 0, 0, 64)>>

\* the value of an int as a ULONGEST, for 0 <= i < 2^31
OfInt(i) == U64(0, 0, i \div 2^16, i % 2^16)

(* C11 (both builds): for a relayed request that carries exactly one       *)
(* buffer, the address and the length passed to gdb_readmem_callback are   *)
(* the request's offset and length, whatever their 64-bit values, and the  *)
(* write flag is set exactly when the request carries the write buffer.    *)
C11_ForwardedVerbatim ==
  (/\ ev.op = "xfer" /\ Len(ev.mem) = 1
   /\ (ev.req.readbuf = 0) # (ev.req.writebuf = 0)) =>
     LET a == ev.mem[1].args
     IN  /\ a.addr = ev.req.offset
         /\ a.len >= 0 /\ OfInt(a.len) = ev.req.len
         /\ a.write # 0 <=> (ev.req.writebuf # 0 /\ ev.req.readbuf = 0)

\* the registers a fetch read, in the order of the reads
ReadRegs(reads) == [i \in 1..Len(reads) |-> reads[i].r]

\* a fetch that read every register 0 .. NumRegs-1 once, in order
FullFetch(reads) == ReadRegs(reads) = [i \in 1..NumRegs |-> i - 1]

(* C12 (per-CPU build): after crash_target_init with crash_get_nr_cpus ()  *)
(* = N >= 1 the thread list holds exactly the N records (1, 0, 0) ..       *)
(* (1, 0, N-1), the record of CPU 0 is the active one, and one             *)
(* target_fetch_registers was done, on the cache of CPU 0 with the         *)
(* registers of CPU 0; when initialization returns that fetch has read     *)
(* every register and the cache of CPU 0 holds what it read, the caches    *)
(* of the other CPUs nothing.                                              *)
C12_InitThreadsAndOneFetch ==
  (variant = "cpu" /\ ev.op = "init") =>
     /\ nr_cpus >= 1 /\ Len(threads) = nr_cpus
     /\ \A i \in 0..(nr_cpus - 1) :
          threads[i + 1] = [pid |-> 1, lwp |-> 0, tid |-> i]
     /\ inferior_tid = 0
     /\ Count(ev.calls, "target_fetch_registers") = 1
     /\ ev.target = 0
     /\ \A i \in 1..Len(ev.reads) : ev.reads[i].ctx = 0
     /\ \A c \in CpuIds \ {0} : regcache[c] = EmptyCache
     /\ ev.ret # "error" =>
          /\ FullFetch(ev.reads)
          /\ \A i \in 1..NumRegs : regcache[0][i - 1] = EntryOf(ev.reads[i])

C12_Witness ==
  /\ variant = "cpu" /\ ev.op = "init" /\ ev.ret # "error"
  /\ nr_cpus = MaxCpu /\ Len(threads) = MaxCpu /\ inferior_tid = 0
  /\ FullFetch(ev.reads)

(* C13 (per-task build): from crash_target_init on, whatever notifications *)
(* and fetches follow, the thread list is the single record (1, 0, 0) and  *)
(* that record is the active thread; a notification calls neither          *)
(* add_thread_silent nor switch_to_thread.                                 *)
C13_SingleThread ==
  (variant = "task" /\ phase = "Populated") =>
     /\ threads = <<[pid |-> 1, lwp |-> 0, tid |-> 0]>>
     /\ inferior_tid = 0
     /\ ev.op = "notify" =>
          /\ Count(ev.calls, "add_thread_silent") = 0
          /\ Count(ev.calls, "switch_to_thread") = 0

C13_Witness ==
  /\ variant = "task" /\ ev.op = "fetch" /\ ev.reads # <<>>
  /\ Len(notes) = 1 /\ notes[1].task # 0 /\ RegInv(notes[1]) = 1
  /\ Len(threads) = 1 /\ inferior_tid = 0

(* C14 (per-task build): a fetch_registers that is not aborted reads every *)
(* register 0 .. N-1, in order, when regno is negative, whatever the       *)
(* negative value, and exactly the register regno when regno >= 0.         *)
C14_NegativeMeansAll ==
  (variant = "task" /\ ev.op = "fetch" /\ ev.ret # "error") =>
     IF ev.regno < 0 THEN FullFetch(ev.reads)
                     ELSE ReadRegs(ev.reads) = <<ev.regno>>

\* what an accepted notification of the per-CPU build has done
RealSwitch(e) ==
  /\ Count(e.calls, "target_fetch_registers") = 1
  /\ FullFetch(e.reads)
  /\ e.target = e.cpu
  /\ Count(e.calls, "switch_to_thread") = 1
  /\ Count(e.calls, "reinit_frame_cache") = 1

(* C15 as stated (per-CPU build): every notification that resolves to a    *)
(* valid CPU index reports success after one full register fetch into the  *)
(* record of that CPU, which it has made the active thread, and one frame  *)
(* cache invalidation.                                                     *)
C15_EveryValidNotifySwitches ==
  (variant = "cpu" /\ ev.op = "notify" /\ ev.cpu >= 0) =>
     /\ ev.ret = "TRUE"
     /\ RealSwitch(ev)
     /\ inferior_tid = ev.cpu /\ ~frame_valid

(* C15 amended (per-CPU build): a notification that resolves to a valid    *)
(* CPU index is rejected only when no record of that CPU exists and        *)
(* add_thread_silent yields none, and aborted only by a register wider     *)
(* than regval; otherwise it reports success after one full register       *)
(* fetch into the record of that CPU, the switch to it and one frame cache *)
(* invalidation.  There is no de-duplication: a notification resolving to  *)
(* the CPU of the accepted notification right before it is accepted and    *)
(* does all of that again.                                                 *)
C15_AcceptedNotifySwitches ==
  /\ []((variant = "cpu" /\ ev.op = "notify" /\ ev.cpu >= 0) =>
          /\ ev.ret \in {"TRUE", "FALSE", "error"}
          /\ ev.ret = "FALSE" =>
               /\ Count(ev.calls, "add_thread_silent") = 1
               /\ ev.cpu \notin ThreadIds
          /\ ev.ret = "error" => \E r \in Regs : arch[r] > RegvalSize
          /\ ev.ret = "TRUE" =>
               /\ RealSwitch(ev)
               /\ inferior_tid = ev.cpu /\ ~frame_valid)
  /\ [][(/\ variant = "cpu"
         /\ ev.op = "notify" /\ ev.ret = "TRUE"
         /\ ev'.op = "notify" /\ ev'.cpu = ev.cpu) =>
          /\ ev'.ret = "TRUE"
          /\ RealSwitch(ev')
          /\ inferior_tid' = ev.cpu /\ ~frame_valid']_vars

C15_Witness ==
  /\ variant = "cpu" /\ ev.op = "notify" /\ ev.ret = "TRUE"
  /\ ev.cpu >= nr_cpus /\ Count(ev.calls, "add_thread_silent") = 0
  /\ RealSwitch(ev) /\ inferior_tid = ev.cpu /\ ~frame_valid

\* positions of the first and of the last call of f in calls, 0 if none
FirstCall(calls, f) ==
  IF \E i \in 1..Len(calls) : calls[i] = f
    THEN CHOOSE i \in 1..Len(calls) :
           calls[i] = f /\ \A j \in 1..(i - 1) : calls[j] # f
    ELSE 0
LastCall(calls, f) ==
  IF \E i \in 1..Len(calls) : calls[i] = f
    THEN CHOOSE i \in 1..Len(calls) :
           calls[i] = f /\ \A j \in (i + 1)..Len(calls) : calls[j] # f
    ELSE 0

(* C16 (both builds): crash_target_init pushes the target before it adds   *)
(* any thread, adds the thread(s) and switches to one of them before the   *)
(* one target_fetch_registers, which fetches all registers into the cache  *)
(* of the thread switched to, and calls reinit_frame_cache once, as its    *)
(* last step, when the fetch returns.  Before a thread is active nothing   *)
(* is fetched and the frame cache is not invalidated.                      *)
C16_StartupOrder ==
  /\ phase = "Unregistered" =>
       /\ threads = <<>> /\ inferior_tid = NoThread
       /\ ev.reads = <<>> /\ ev.calls = <<>>
  /\ ev.op = "init" =>
       LET c == ev.calls
       IN  /\ Count(c, "push_target") = 1
           /\ FirstCall(c, "push_target") < FirstCall(c, "add_thread_silent")
           /\ Count(c, "add_thread_silent") = Len(threads)
           /\ Count(c, "switch_to_thread") = 1
           /\ FirstCall(c, "add_thread_silent")
                < FirstCall(c, "switch_to_thread")
           /\ Count(c, "target_fetch_registers") = 1
           /\ LastCall(c, "add_thread_silent")
                < FirstCall(c, "target_fetch_registers")
           /\ \A i \in 1..Len(c) :
                c[i] \in {"target_fetch_registers", "reinit_frame_cache"} =>
                  FirstCall(c, "switch_to_thread") < i
           /\ inferior_tid # NoThread /\ ev.target = inferior_tid
           /\ ev.ret # "error" =>
                /\ FullFetch(ev.reads)
                /\ Count(c, "reinit_frame_cache") = 1
                /\ c[Len(c)] = "reinit_frame_cache"
                /\ ~frame_valid
           /\ ev.ret = "error" => Count(c, "reinit_frame_cache") = 0

C16_Witness ==
  /\ variant = "task" /\ ev.op = "init" /\ ev.ret # "error"
  /\ Len(ev.calls) = 6 /\ ev.calls[6] = "reinit_frame_cache"
  /\ ev.calls[5] = "target_fetch_registers" /\ FullFetch(ev.reads)

(* C17 (per-task build): a notification, de-duplicated or not, reads no    *)
(* register; after one that changed the context every register of the     *)
(* thread is unknown; and a fetch reads through the primitive under the    *)
(* task crash has as CURRENT at that time, the task of the latest          *)
(* notification: every register when regno is -1.                          *)
C17_NotifyInvalidatesFetchReads ==
  variant = "task" =>
    /\ ev.op = "notify" =>
         /\ ev.reads = <<>>
         /\ Count(ev.calls, "target_fetch_registers") = 0
         /\ RegInv(ev) > 0 => regcache[inferior_tid] = EmptyCache
    /\ ev.op = "fetch" =>
         /\ \A i \in 1..Len(ev.reads) :
              /\ ev.reads[i].ctx = cur_task
              /\ notes # <<>> => ev.reads[i].ctx = notes[Len(notes)].task
              /\ regcache[inferior_tid][ev.reads[i].r] = EntryOf(ev.reads[i])
         /\ (ev.regno = -1 /\ ev.ret # "error") => FullFetch(ev.reads)

C17_Witness ==
  /\ variant = "task" /\ ev.op = "fetch" /\ ev.regno = -1
  /\ Len(notes) = 1 /\ notes[1].task = MaxTask /\ RegInv(notes[1]) = 1
  /\ FullFetch(ev.reads)
  /\ \A i \in 1..Len(ev.reads) : ev.reads[i].ctx = MaxTask

(* C18 (per-CPU build): the active thread is one of the records of the     *)
(* thread list; it is the record of CPU 0 after crash_target_init, becomes *)
(* the record of the CPU a notification resolved to when that notification *)
(* reports success, and is changed by nothing else: a notification that    *)
(* fails, a refresh and a fetch leave it alone.                            *)
C18_ActiveFollowsAccepted ==
  /\ []((variant = "cpu" /\ phase = "Populated") => inferior_tid \in ThreadIds)
  /\ [][variant = "cpu" =>
          IF ev'.op = "init" THEN inferior_tid' = 0
          ELSE IF ev'.op = "notify" /\ ev'.ret = "TRUE"
                 THEN inferior_tid' = ev'.cpu
                 ELSE inferior_tid' = inferior_tid]_vars

C18_Witness ==
  /\ variant = "cpu" /\ ev.op = "notify" /\ ev.ret = "FALSE"
  /\ inferior_tid # 0 /\ inferior_tid \in ThreadIds

(* C19 (per-CPU build): gdb_refresh_regcache (cpu), when a record of cpu   *)
(* exists, fills the cache of that record with what the primitive returns  *)
(* for CPU cpu, whether or not that record is the active thread.           *)
C19_RefreshReadsGivenCpu ==
  (variant = "cpu" /\ ev.op = "refresh" /\ ev.target # NoThread) =>
     /\ ev.target = ev.cpu
     /\ ev.ret # "error" => FullFetch(ev.reads)
     /\ \A i \in 1..Len(ev.reads) :
          /\ ev.reads[i].ctx = ev.cpu
          /\ ev.reads[i].ok => ev.reads[i].val = RegVal(ev.cpu, ev.reads[i].r)
          /\ regcache[ev.cpu][ev.reads[i].r] = EntryOf(ev.reads[i])

(* C20 (per-CPU build): a gdb_refresh_regcache (cpu) that returns leaves   *)
(* the active thread, the thread list and the caches of the other records  *)
(* as they were, and the CPU selected in crash is on return the one that   *)
(* was selected before the call, also when that is not the CPU of the      *)
(* active thread; when no record of cpu exists it reads no register and    *)
(* selects no CPU.                                                         *)
C20_RefreshRestoresCpu ==
  [][(variant = "cpu" /\ ev'.op = "refresh" /\ ev'.ret # "error") =>
       /\ inferior_tid' = inferior_tid
       /\ threads' = threads
       /\ \A c \in CpuIds \ {ev'.cpu} : regcache'[c] = regcache[c]
       /\ crash_cpu' = crash_cpu
       /\ ev'.target = NoThread =>
            /\ ev'.reads = <<>>
            /\ Count(ev'.calls, "set_cpu") = 0
            /\ regcache' = regcache]_vars

====
